---- MODULE Spec2Model ----
(***************************************************************************)
(* A model of dealership/models.py: the Dealership, CarMakeOption,         *)
(* CarColorOption, CarModelOption and Car tables, the Car price accessors  *)
(* and sell_car, and the queries of run_spec_queries.                      *)
(*                                                                         *)
(* Representation.                                                         *)
(*  - A nullable column holds None (<<>>) or Some(v) (<<v>>).              *)
(*  - A Python float price is written in thousandths: the integer p stands *)
(*    for the double nearest to p/1000 (what the literal p/1000 evaluates  *)
(*    to).  Cents are plain integers.                                      *)
(*  - A date is a day number; `today` is datetime.date.today().            *)
(*  - `cars` is the Car table (what is persisted); `mem` holds the Python  *)
(*    Car instance of each row (what save() writes out).                   *)
(***************************************************************************)
EXTENDS Integers, Sequences, FiniteSets, TLC

VARIABLES users, dealerships, makes, colors, models, cars, mem, today, pc, last

tables == <<users, dealerships, makes, colors, models, cars, mem>>
vars == <<users, dealerships, makes, colors, models, cars, mem, today, pc, last>>

None == <<>>
Some(v) == <<v>>

\* ------------------------------------------------------------------ bounds
MaxDay == 2

\* datetime.date.today().year
CurrentYear == 2026

\* Prices handed to the setters and to sell_car, in thousandths:
\* -1.0, -0.001, 0, 0.005, 0.29, 1.239, 4000.00, 15444.45
Prices == {-1000, -1, 0, 5, 290, 1239, 4000000, 15444450}

\* --------------------------------------------------- float arithmetic
\* int(price * 100) of the setters, for price >= 0.  price is the double
\* nearest to p/1000; price * 100 is one IEEE-754 double multiplication
\* (round to nearest, 53-bit significand); int() truncates.
\*
\* When p is not a whole number of cents the product is at least 0.1 away
\* from an integer and the two roundings (relative error 2^-52) cannot carry
\* it across one: the result is p \div 10.  When p = 10 n (n cents):
\*   e      with 100 * 2^e <= n < 200 * 2^e     (exponent of n/100)
\*   k      = 52 - e                            (the significand is m / 2^k)
\*   m      = n * 2^k / 100 rounded to nearest  (significand of the price)
\*   r      = (n * 2^k) mod 100, so 100 m - n 2^k = -r (r < 50) or 100 - r
\*   price * 100 = n + (100 m - n 2^k) / 2^k exactly, before rounding.
\* (r = 50, a tie, cannot happen: n * 2^k is a multiple of 4.)
\* The product rounds to a double below n, and int() gives n - 1, exactly
\* when the exact product lies below n by more than half the gap between n
\* and the double before it: 2^(E-53), or 2^(E-54) when n = 2^E, where
\* 2^E <= n < 2^(E+1) and E - e is 6 or 7.  (Exactly half the gap rounds to
\* n, whose significand is even.)  In units of 2^-k the half gap is
\* 2^(E-e-1), or 2^(E-e-2) when n = 2^E.

RECURSIVE Pow2(_)
Pow2(k) == IF k = 0 THEN 1 ELSE 2 * Pow2(k - 1)

RECURSIVE Pow2Mod100(_)
Pow2Mod100(k) == IF k = 0 THEN 1 ELSE (2 * Pow2Mod100(k - 1)) % 100

\* e with 100 * 2^e <= n < 200 * 2^e, for n >= 1
RECURSIVE FloatExponent(_)
FloatExponent(n) ==
    IF n >= 200 THEN 1 + FloatExponent(n \div 2)
    ELSE IF n < 100 THEN FloatExponent(2 * n) - 1
    ELSE 0

\* n / 2^e, rounded down: in 100..199
Scaled(n, e) == IF e >= 0 THEN n \div Pow2(e) ELSE n * Pow2(-e)

RECURSIVE IsPowerOfTwo(_)
IsPowerOfTwo(n) == IF n = 1 THEN TRUE ELSE (n % 2 = 0 /\ IsPowerOfTwo(n \div 2))

\* int((n/100) * 100) for a whole number n >= 1 of cents
CentsProduct(n) ==
    LET e == FloatExponent(n)
        r == ((n % 100) * Pow2Mod100(52 - e)) % 100
        below == IF r < 50 THEN r ELSE 0
        gap == IF Scaled(n, e) >= 128 THEN 128 ELSE 64
        lost == IF IsPowerOfTwo(n) THEN 4 * below > gap ELSE 2 * below > gap
    IN  IF lost THEN n - 1 ELSE n

\* int(price * 100), lines 148 and 163
PriceToCents(p) ==
    IF p = 0 THEN 0
    ELSE IF p % 10 # 0 THEN p \div 10
    ELSE CentsProduct(p \div 10)

\* cents / 100 (lines 139, 156): the double nearest to cents/100
CentsToPrice(c) == 10 * c

\* floor(amount * 100) for the exact decimal amount p/1000
ExactCents(p) == p \div 10

\* -------------------------------------------------------------- validators
is_not_negative(value) == value >= 0

\* TRUE when year_validator returns, FALSE when it raises ValidationError
year_validator(value) ==
    LET earliest_year == 1908
        years_out == 1
        latest_year == CurrentYear + years_out
    IN  earliest_year <= value /\ value <= latest_year

\* --------------------------------------------------------- Car accessors
is_sold(car) == car.sold_date # None

sold_price(car) ==
    IF car.sold_price_cents # None /\ car.sold_price_cents[1] # 0
    THEN Some(CentsToPrice(car.sold_price_cents[1]))
    ELSE None

list_price(car) == CentsToPrice(car.list_price_cents)

\* Model.save(): the instance's fields are written to its row
save(m, c) == [cars EXCEPT ![c] = m[c]]

Idle == [at |-> "idle", car |-> 0, price |-> 0, was_sold |-> FALSE, clean |-> FALSE]
NoOp == [op |-> "none"]

\* bookkeeping for the properties: car c, as stored and as held by its
\* instance, has neither a sold price nor a sold date
Unsold(c) ==
    /\ cars[c].sold_price_cents = None /\ cars[c].sold_date = None
    /\ mem[c].sold_price_cents = None /\ mem[c].sold_date = None

\* ------------------------------------------------------ Car price methods
\* car.sold_price = price
sold_price_setter(c, price) ==
    /\ pc = Idle
    /\ c \in DOMAIN mem
    /\ IF price >= 0
       THEN LET m == [mem EXCEPT ![c].sold_price_cents = Some(PriceToCents(price))]
            IN  /\ mem' = m
                /\ cars' = save(m, c)
                /\ last' = [op |-> "sold_price", car |-> c, price |-> price, err |-> "none"]
       ELSE /\ UNCHANGED <<mem, cars>>
            /\ last' = [op |-> "sold_price", car |-> c, price |-> price, err |-> "ValueError"]
    /\ UNCHANGED <<users, dealerships, makes, colors, models, today, pc>>

\* list_price_setter with the cents assigned to the instance before the check
list_price_setter_late_check(c, price) ==
    /\ pc = Idle
    /\ c \in DOMAIN mem
    /\ LET m == [mem EXCEPT ![c].list_price_cents = price \div 10]
       IN  IF price >= 0
           THEN /\ mem' = m
                /\ cars' = save(m, c)
                /\ last' = [op |-> "list_price", car |-> c, price |-> price, err |-> "none"]
           ELSE /\ mem' = m
                /\ UNCHANGED cars
                /\ last' = [op |-> "list_price", car |-> c, price |-> price, err |-> "ValueError"]
    /\ UNCHANGED <<users, dealerships, makes, colors, models, today, pc>>

\* car.list_price = price
list_price_setter(c, price) ==
    /\ pc = Idle
    /\ c \in DOMAIN mem
    /\ IF price >= 0
       THEN LET m == [mem EXCEPT ![c].list_price_cents = PriceToCents(price)]
            IN  /\ mem' = m
                /\ cars' = save(m, c)
                /\ last' = [op |-> "list_price", car |-> c, price |-> price, err |-> "none"]
       ELSE /\ UNCHANGED <<mem, cars>>
            /\ last' = [op |-> "list_price", car |-> c, price |-> price, err |-> "ValueError"]
    /\ UNCHANGED <<users, dealerships, makes, colors, models, today, pc>>

\* car.sell_car(sale_price), up to and including line 171: the check, and
\* the sold_price setter with the save() it ends with
sell_car(c, sale_price) ==
    /\ pc = Idle
    /\ c \in DOMAIN mem
    /\ IF sale_price >= 0
       THEN LET m == [mem EXCEPT ![c].sold_price_cents = Some(PriceToCents(sale_price))]
            IN  /\ mem' = m
                /\ cars' = save(m, c)
                /\ pc' = [at |-> "sell_car", car |-> c, price |-> sale_price,
                          was_sold |-> is_sold(mem[c]), clean |-> Unsold(c)]
                /\ last' = NoOp
       ELSE /\ UNCHANGED <<mem, cars, pc>>
            /\ last' = [op |-> "sell_car", car |-> c, price |-> sale_price, err |-> "ValueError",
                        was_sold |-> is_sold(mem[c]), clean |-> Unsold(c)]
    /\ UNCHANGED <<users, dealerships, makes, colors, models, today>>

\* car.sell_car(sale_price), lines 172-173: the date and the second save()
sell_car_save ==
    /\ pc.at = "sell_car"
    /\ LET c == pc.car
           m == [mem EXCEPT ![c].sold_date = Some(today)]
       IN  /\ mem' = m
           /\ cars' = save(m, c)
           /\ last' = [op |-> "sell_car", car |-> c, price |-> pc.price, err |-> "none",
                       was_sold |-> pc.was_sold, clean |-> pc.clean]
    /\ pc' = Idle
    /\ UNCHANGED <<users, dealerships, makes, colors, models, today>>

\* car.sold_date = datetime.date.today() (run_tests, line 367): the instance only
assign_sold_date(c) ==
    /\ pc = Idle
    /\ c \in DOMAIN mem
    /\ mem' = [mem EXCEPT ![c].sold_date = Some(today)]
    /\ last' = NoOp
    /\ UNCHANGED <<users, dealerships, makes, colors, models, cars, today, pc>>

\* car.save() (run_tests, line 368)
save_car(c) ==
    /\ pc = Idle
    /\ c \in DOMAIN mem
    /\ cars' = save(mem, c)
    /\ last' = NoOp
    /\ UNCHANGED <<users, dealerships, makes, colors, models, mem, today, pc>>

\* midnight: datetime.date.today() moves on
next_day ==
    /\ pc = Idle
    /\ today < MaxDay
    /\ today' = today + 1
    /\ last' = NoOp
    /\ UNCHANGED <<tables, pc>>

\* ------------------------------------------------------------ the store
\* Rows are keyed by their primary key.  A new row takes the smallest key
\* of `ids` not in use (the keys only have to be fresh).
HasFree(ids, used) == ids \ used # {}
NewId(ids, used) == CHOOSE i \in ids \ used : \A j \in ids \ used : i <= j

Without(table, gone) == [i \in DOMAIN table \ gone |-> table[i]]

\* Number of rows in the store
Rows ==
    Cardinality(users) + Cardinality(DOMAIN dealerships) + Cardinality(DOMAIN makes)
    + Cardinality(DOMAIN colors) + Cardinality(DOMAIN models) + Cardinality(DOMAIN cars)

\* User.objects.create(...)
create_user(ids) ==
    /\ pc = Idle
    /\ HasFree(ids, users)
    /\ users' = users \cup {NewId(ids, users)}
    /\ last' = NoOp
    /\ UNCHANGED <<dealerships, makes, colors, models, cars, mem, today, pc>>

\* Dealership.objects.create(owner=, year_established=): create() saves the
\* row without calling full_clean(), so the field's validators are not run
create_dealership(ids, owner, year) ==
    /\ pc = Idle
    /\ HasFree(ids, DOMAIN dealerships)
    /\ owner \in users
    /\ dealerships' = dealerships @@
           (NewId(ids, DOMAIN dealerships) :> [owner |-> owner, year_established |-> year])
    /\ last' = NoOp
    /\ UNCHANGED <<users, makes, colors, models, cars, mem, today, pc>>

\* CarMakeOption.objects.create(company_name=)
create_make(ids, name) ==
    /\ pc = Idle
    /\ HasFree(ids, DOMAIN makes)
    /\ makes' = makes @@ (NewId(ids, DOMAIN makes) :> name)
    /\ last' = NoOp
    /\ UNCHANGED <<users, dealerships, colors, models, cars, mem, today, pc>>

\* CarColorOption.objects.create(color_name=)
create_color(ids, name) ==
    /\ pc = Idle
    /\ HasFree(ids, DOMAIN colors)
    /\ colors' = colors @@ (NewId(ids, DOMAIN colors) :> name)
    /\ last' = NoOp
    /\ UNCHANGED <<users, dealerships, makes, models, cars, mem, today, pc>>

\* CarModelOption.objects.create(model_name=, company=)
create_model(ids, company, name) ==
    /\ pc = Idle
    /\ HasFree(ids, DOMAIN models)
    /\ company \in DOMAIN makes
    /\ models' = models @@
           (NewId(ids, DOMAIN models) :> [company |-> company, model_name |-> name])
    /\ last' = NoOp
    /\ UNCHANGED <<users, dealerships, makes, colors, cars, mem, today, pc>>

\* Car.objects.create(...): the foreign keys must name rows; no validator of
\* year, mileage, list_price_cents or sold_price_cents is run by create()
create_car(ids, car) ==
    /\ pc = Idle
    /\ HasFree(ids, DOMAIN cars)
    /\ car.make \in DOMAIN makes
    /\ car.model \in DOMAIN models
    /\ car.color \in DOMAIN colors
    /\ car.dealership \in DOMAIN dealerships
    /\ cars' = cars @@ (NewId(ids, DOMAIN cars) :> car)
    /\ mem' = mem @@ (NewId(ids, DOMAIN cars) :> car)
    /\ last' = NoOp
    /\ UNCHANGED <<users, dealerships, makes, colors, models, today, pc>>

\* car.mileage = value: the instance only
assign_mileage(c, value) ==
    /\ pc = Idle
    /\ c \in DOMAIN mem
    /\ mem' = [mem EXCEPT ![c].mileage = value]
    /\ last' = NoOp
    /\ UNCHANGED <<users, dealerships, makes, colors, models, cars, today, pc>>

Deleted(table, id, err) == [op |-> "delete", table |-> table, id |-> id, err |-> err]

\* The rows a delete is refused for (on_delete=PROTECT)
DealershipsOf(u) == {d \in DOMAIN dealerships : dealerships[d].owner = u}
ModelsOf(m) == {x \in DOMAIN models : models[x].company = m}
CarsOfDealership(d) == {c \in DOMAIN cars : cars[c].dealership = d}
CarsOfMake(m) == {c \in DOMAIN cars : cars[c].make = m}
CarsOfModel(x) == {c \in DOMAIN cars : cars[c].model = x}
CarsOfColor(k) == {c \in DOMAIN cars : cars[c].color = k}

\* user.delete(): Dealership.owner is PROTECT
delete_user(u) ==
    /\ pc = Idle
    /\ u \in users
    /\ IF DealershipsOf(u) # {}
       THEN /\ UNCHANGED users
            /\ last' = Deleted("user", u, "ProtectedError")
       ELSE /\ users' = users \ {u}
            /\ last' = Deleted("user", u, "none")
    /\ UNCHANGED <<dealerships, makes, colors, models, cars, mem, today, pc>>

\* dealership.delete(): Car.dealership is CASCADE
delete_dealership(d) ==
    /\ pc = Idle
    /\ d \in DOMAIN dealerships
    /\ dealerships' = Without(dealerships, {d})
    /\ cars' = Without(cars, CarsOfDealership(d))
    /\ mem' = Without(mem, CarsOfDealership(d))
    /\ last' = Deleted("dealership", d, "none")
    /\ UNCHANGED <<users, makes, colors, models, today, pc>>

\* delete_make refused only for the cars of the make itself
delete_make_own_cars_only(m) ==
    /\ pc = Idle
    /\ m \in DOMAIN makes
    /\ IF CarsOfMake(m) # {}
       THEN /\ UNCHANGED <<makes, models>>
            /\ last' = Deleted("make", m, "ProtectedError")
       ELSE /\ makes' = Without(makes, {m})
            /\ models' = Without(models, ModelsOf(m))
            /\ last' = Deleted("make", m, "none")
    /\ UNCHANGED <<users, dealerships, colors, cars, mem, today, pc>>

\* make.delete(): CarModelOption.company is CASCADE, Car.make and Car.model
\* are PROTECT, also for the models collected by the cascade
delete_make(m) ==
    /\ pc = Idle
    /\ m \in DOMAIN makes
    /\ IF CarsOfMake(m) # {} \/ \E x \in ModelsOf(m) : CarsOfModel(x) # {}
       THEN /\ UNCHANGED <<makes, models>>
            /\ last' = Deleted("make", m, "ProtectedError")
       ELSE /\ makes' = Without(makes, {m})
            /\ models' = Without(models, ModelsOf(m))
            /\ last' = Deleted("make", m, "none")
    /\ UNCHANGED <<users, dealerships, colors, cars, mem, today, pc>>

\* model.delete(): Car.model is PROTECT
delete_model(x) ==
    /\ pc = Idle
    /\ x \in DOMAIN models
    /\ IF CarsOfModel(x) # {}
       THEN /\ UNCHANGED models
            /\ last' = Deleted("model", x, "ProtectedError")
       ELSE /\ models' = Without(models, {x})
            /\ last' = Deleted("model", x, "none")
    /\ UNCHANGED <<users, dealerships, makes, colors, cars, mem, today, pc>>

\* color.delete(): Car.color is PROTECT
delete_color(k) ==
    /\ pc = Idle
    /\ k \in DOMAIN colors
    /\ IF CarsOfColor(k) # {}
       THEN /\ UNCHANGED colors
            /\ last' = Deleted("color", k, "ProtectedError")
       ELSE /\ colors' = Without(colors, {k})
            /\ last' = Deleted("color", k, "none")
    /\ UNCHANGED <<users, dealerships, makes, models, cars, mem, today, pc>>

\* car.delete(): nothing refers to a Car
delete_car(c) ==
    /\ pc = Idle
    /\ c \in DOMAIN cars
    /\ cars' = Without(cars, {c})
    /\ mem' = Without(mem, {c})
    /\ last' = Deleted("car", c, "none")
    /\ UNCHANGED <<users, dealerships, makes, colors, models, today, pc>>

\* ---------------------------------------------------------------- queries
\* num_cars of run_spec_queries: COUNT(CASE WHEN cars.sold_date IS NULL THEN 1
\* END) over Dealership LEFT OUTER JOIN Car, grouped by dealership.  A
\* dealership without cars has one joined row, all NULL, which the WHEN takes.
num_cars(d) ==
    IF CarsOfDealership(d) = {} THEN 1
    ELSE Cardinality({c \in CarsOfDealership(d) : cars[c].sold_date = None})

\* old_dealers with num_cars__gt=3
old_dealers_gt ==
    {d \in DOMAIN dealerships : dealerships[d].year_established > 1980 /\ num_cars(d) > 3}

\* .filter(year_established__gt=1980, num_cars__gte=3)
old_dealers ==
    {d \in DOMAIN dealerships : dealerships[d].year_established > 1980 /\ num_cars(d) >= 3}

run_old_dealers ==
    /\ pc = Idle
    /\ last' = [op |-> "old_dealers", result |-> old_dealers]
    /\ UNCHANGED <<tables, today, pc>>

\* red_fords with mileage__lte=30000
red_fords_lte(d) ==
    {c \in CarsOfDealership(d) :
        /\ makes[cars[c].make] = "Ford"
        /\ colors[cars[c].color] = "Red"
        /\ cars[c].mileage <= 30000
        /\ cars[c].sold_date = None}

\* The rows of self.cars.filter(...) in find_red_fords_under_30000
red_fords(d) ==
    {c \in CarsOfDealership(d) :
        /\ makes[cars[c].make] = "Ford"
        /\ colors[cars[c].color] = "Red"
        /\ cars[c].mileage < 30000
        /\ cars[c].sold_date = None}

\* .order_by('-list_price_cents'): any order of the rows with the prices
\* descending (rows of equal price come in the order the database picks)
Ordered(S) ==
    {s \in [1..Cardinality(S) -> S] :
        /\ \A i, j \in 1..Cardinality(S) : i # j => s[i] # s[j]
        /\ \A i, j \in 1..Cardinality(S) :
              i < j => cars[s[i]].list_price_cents >= cars[s[j]].list_price_cents}

\* dealership.find_red_fords_under_30000()
find_red_fords_under_30000(d) ==
    /\ pc = Idle
    /\ d \in DOMAIN dealerships
    /\ \E s \in Ordered(red_fords(d)) :
          last' = [op |-> "red_fords", dealership |-> d, result |-> s]
    /\ UNCHANGED <<tables, today, pc>>

\* ------------------------------------------------------------- seed data
\* populate_data: the owner, the dealership, and car1 with its options
Car1 ==
    [make |-> 1, model |-> 1, year |-> 2007, color |-> 1, dealership |-> 1,
     mileage |-> 100005, list_price_cents |-> 400000,
     sold_price_cents |-> None, sold_date |-> None]

Init ==
    /\ users = {1}
    /\ dealerships = (1 :> [owner |-> 1, year_established |-> 1987])
    /\ makes = (1 :> "Ford")
    /\ models = (1 :> [company |-> 1, model_name |-> "Escape"])
    /\ colors = (1 :> "Black")
    /\ cars = (1 :> Car1)
    /\ mem = cars
    /\ today = 1
    /\ pc = Idle
    /\ last = NoOp

Next ==
    \/ \E c \in DOMAIN mem, price \in Prices : sold_price_setter(c, price)
    \/ \E c \in DOMAIN mem, price \in Prices : list_price_setter(c, price)
    \/ \E c \in DOMAIN mem, price \in Prices : sell_car(c, price)
    \/ sell_car_save
    \/ \E c \in DOMAIN mem : assign_sold_date(c)
    \/ \E c \in DOMAIN mem : save_car(c)
    \/ next_day

\* The price methods and sell_car on the seeded car
Spec == Init /\ [][Next]_vars

\* ================================================================ claims
\* ---------------------------------------------------------------- Spec

\* C1: sell_car applies its two-field update atomically: for a car that
\* started with neither a sold price nor a sold date, no persisted state
\* during or after the operation has one of the two fields set and the other
\* absent.
C1_SellAtomic ==
    \A c \in DOMAIN cars :
        (\/ (pc.at = "sell_car" /\ pc.car = c /\ pc.clean)
         \/ (last.op = "sell_car" /\ last.car = c /\ last.err = "none" /\ last.clean))
        => ((cars[c].sold_price_cents = None) <=> (cars[c].sold_date = None))

PriceOps == {"sold_price", "list_price", "sell_car"}

\* C2: a call of the list price setter, the sold price setter or sell_car
\* with a negative price raises ValueError and leaves the instance and the
\* stored row as they were.
C2_NegativeRejected ==
    [][(last'.op \in PriceOps /\ last'.price < 0)
        => (last'.err = "ValueError" /\ UNCHANGED <<cars, mem>>)]_vars

\* A negative sale price was refused on a car that holds a sold price, a
\* sold date and a list price written by the setters
C2_Witness ==
    /\ last.op = "sell_car"
    /\ last.price < 0
    /\ last.err = "ValueError"
    /\ cars[last.car].sold_price_cents = Some(123)
    /\ cars[last.car].sold_date # None
    /\ cars[last.car].list_price_cents = 1544445

\* C3: after sell_car(sale_price), sale_price >= 0, on a car that was not
\* sold, the stored row has sold_price_cents = floor(sale_price * 100) for
\* the exact decimal sale_price, sold_date = today, and is_sold() is true.
C3_SellResult ==
    (last.op = "sell_car" /\ last.err = "none" /\ ~last.was_sold)
    => /\ cars[last.car].sold_price_cents = Some(ExactCents(last.price))
       /\ cars[last.car].sold_date = Some(today)
       /\ is_sold(mem[last.car])

\* C4: the sold_price getter returns None exactly when no sold_price_cents
\* is recorded, and after the sold price setter or sell_car was given a >= 0
\* (0 included) it returns a truncated to the cent.
C4_SoldPriceGetter ==
    /\ \A c \in DOMAIN mem :
          (sold_price(mem[c]) = None) <=> (mem[c].sold_price_cents = None)
    /\ (last.op \in {"sold_price", "sell_car"} /\ last.err = "none")
       => sold_price(mem[last.car]) = Some(CentsToPrice(ExactCents(last.price)))

\* C5: after the list price setter was given amount >= 0, the getter returns
\* floor(amount * 100) / 100 for the exact decimal amount, and the stored
\* list_price_cents is floor(amount * 100).
C5_ListPriceRoundTrip ==
    (last.op = "list_price" /\ last.err = "none")
    => /\ list_price(mem[last.car]) = CentsToPrice(ExactCents(last.price))
       /\ cars[last.car].list_price_cents = ExactCents(last.price)

\* ----------------------------------------------------------- SpecValid
\* Creation and update of dealerships and cars with years, mileages and
\* cents drawn from both sides of the validators' limits.
Years == {1907, 1908, CurrentYear + 1, CurrentYear + 2}
Mileages == {-1, 0, 100005}
CentsValues == {-1, 0, 400000}

InitValid ==
    /\ users = {1}
    /\ dealerships = <<>>
    /\ makes = (1 :> "Ford")
    /\ models = (1 :> [company |-> 1, model_name |-> "Escape"])
    /\ colors = (1 :> "Black")
    /\ cars = <<>>
    /\ mem = <<>>
    /\ today = 1
    /\ pc = Idle
    /\ last = NoOp

NextValid ==
    \/ \E y \in Years : create_dealership({1, 2}, 1, y)
    \/ \E d \in DOMAIN dealerships, y \in Years, mi \in Mileages, lp \in CentsValues,
          sp \in {None, Some(-1)} :
          create_car({1}, [make |-> 1, model |-> 1, year |-> y, color |-> 1,
                           dealership |-> d, mileage |-> mi, list_price_cents |-> lp,
                           sold_price_cents |-> sp, sold_date |-> None])
    \/ \E c \in DOMAIN mem, mi \in Mileages : assign_mileage(c, mi)
    \/ \E c \in DOMAIN mem : save_car(c)

SpecValid == InitValid /\ [][NextValid]_vars

\* C6: no stored Dealership or Car holds a year outside
\* [1908, current year + 1]: a create or update with such a year fails.
C6_YearInvariant ==
    /\ \A d \in DOMAIN dealerships : year_validator(dealerships[d].year_established)
    /\ \A c \in DOMAIN cars : year_validator(cars[c].year)

\* C7: every stored car has mileage >= 0, list_price_cents >= 0 and
\* sold_price_cents absent or >= 0.
C7_NonNegativeInvariant ==
    \A c \in DOMAIN cars :
        /\ is_not_negative(cars[c].mileage)
        /\ is_not_negative(cars[c].list_price_cents)
        /\ (cars[c].sold_price_cents = None \/ is_not_negative(cars[c].sold_price_cents[1]))

\* ----------------------------------------------------------- SpecStore
\* Creates and deletes of every kind of row, from the empty store.
StoreIds == {1, 2}
MaxRows == 10

StoreCar(mk, mo, co, d) ==
    [make |-> mk, model |-> mo, year |-> 2007, color |-> co, dealership |-> d,
     mileage |-> 100005, list_price_cents |-> 400000,
     sold_price_cents |-> None, sold_date |-> None]

InitStore ==
    /\ users = {}
    /\ dealerships = <<>>
    /\ makes = <<>>
    /\ models = <<>>
    /\ colors = <<>>
    /\ cars = <<>>
    /\ mem = <<>>
    /\ today = 1
    /\ pc = Idle
    /\ last = NoOp

NextStore ==
    \/ Rows < MaxRows /\ create_user(StoreIds)
    \/ Rows < MaxRows /\ \E u \in users : create_dealership(StoreIds, u, 1987)
    \/ Rows < MaxRows /\ create_make(StoreIds, "Ford")
    \/ Rows < MaxRows /\ create_color(StoreIds, "Red")
    \/ Rows < MaxRows /\ \E m \in DOMAIN makes : create_model(StoreIds, m, "Escape")
    \/ Rows < MaxRows /\ \E mk \in DOMAIN makes, mo \in DOMAIN models, co \in DOMAIN colors,
                            d \in DOMAIN dealerships :
                            create_car(StoreIds, StoreCar(mk, mo, co, d))
    \/ \E u \in users : delete_user(u)
    \/ \E d \in DOMAIN dealerships : delete_dealership(d)
    \/ \E m \in DOMAIN makes : delete_make(m)
    \/ \E x \in DOMAIN models : delete_model(x)
    \/ \E k \in DOMAIN colors : delete_color(k)
    \/ \E c \in DOMAIN cars : delete_car(c)

SpecStore == InitStore /\ [][NextStore]_vars

\* Every reference of a stored row names a stored row
Integrity ==
    /\ \A d \in DOMAIN dealerships : dealerships[d].owner \in users
    /\ \A x \in DOMAIN models : models[x].company \in DOMAIN makes
    /\ \A c \in DOMAIN cars :
          /\ cars[c].dealership \in DOMAIN dealerships
          /\ cars[c].make \in DOMAIN makes
          /\ cars[c].model \in DOMAIN models
          /\ cars[c].color \in DOMAIN colors

\* What a delete of row last'.id of table last'.table does to the store
DeleteEffect ==
    LET id == last'.id
        t == last'.table
        kept == last'.err = "ProtectedError" /\ UNCHANGED tables
    IN  /\ t = "dealership" =>
              /\ last'.err = "none"
              /\ id \notin DOMAIN dealerships'
              /\ \A c \in DOMAIN cars : c \in DOMAIN cars' <=> cars[c].dealership # id
              /\ UNCHANGED <<users, makes, colors, models>>
        /\ t = "make" =>
              IF \E c \in DOMAIN cars :
                    cars[c].make = id \/ models[cars[c].model].company = id
              THEN kept
              ELSE /\ last'.err = "none"
                   /\ id \notin DOMAIN makes'
                   /\ \A x \in DOMAIN models : x \in DOMAIN models' <=> models[x].company # id
                   /\ UNCHANGED <<users, dealerships, colors, cars>>
        /\ t = "user" =>
              IF \E d \in DOMAIN dealerships : dealerships[d].owner = id
              THEN kept ELSE last'.err = "none" /\ id \notin users'
        /\ t = "color" =>
              IF \E c \in DOMAIN cars : cars[c].color = id
              THEN kept ELSE last'.err = "none" /\ id \notin DOMAIN colors'
        /\ t = "model" =>
              IF \E c \in DOMAIN cars : cars[c].model = id
              THEN kept ELSE last'.err = "none" /\ id \notin DOMAIN models'

\* C10: after any creates and deletes every reference of a stored row names
\* a stored row; deleting a Dealership removes its Cars, deleting a
\* MakeOption removes its ModelOptions, and deleting an owner, MakeOption,
\* ColorOption or ModelOption that is still referenced (a MakeOption also
\* through one of its ModelOptions) is refused and changes nothing.
C10_ReferentialIntegrity ==
    /\ []Integrity
    /\ [][last'.op = "delete" => DeleteEffect]_vars

\* Make 2 could not be deleted: no car is of make 2, but a car is of a
\* model of make 2
C10_Witness ==
    /\ last = Deleted("make", 2, "ProtectedError")
    /\ \A c \in DOMAIN cars : cars[c].make # 2
    /\ \E c \in DOMAIN cars : models[cars[c].model].company = 2

\* ------------------------------------------------------ SpecOldDealers
\* Dealerships established in 1980 or 1987, cars on the lot or sold, and the
\* second query of run_spec_queries.
MaxLotCars == 6

LotCar(d, sold) ==
    [make |-> 1, model |-> 1, year |-> 2007, color |-> 1, dealership |-> d,
     mileage |-> 100005, list_price_cents |-> 400000,
     sold_price_cents |-> IF sold THEN Some(400000) ELSE None,
     sold_date |-> IF sold THEN Some(today) ELSE None]

NextOldDealers ==
    \/ \E y \in {1980, 1987} : create_dealership({1, 2}, 1, y)
    \/ \E d \in DOMAIN dealerships, sold \in BOOLEAN :
          create_car(1..MaxLotCars, LotCar(d, sold))
    \/ run_old_dealers

SpecOldDealers == InitValid /\ [][NextOldDealers]_vars

OnLot(d) == {c \in DOMAIN cars : cars[c].dealership = d /\ cars[c].sold_date = None}

\* C8: the query returns exactly the dealerships established after 1980
\* that have at least 3 cars of their own with no sold_date.
C8_OldDealers ==
    last.op = "old_dealers"
    => last.result = {d \in DOMAIN dealerships :
                         /\ dealerships[d].year_established > 1980
                         /\ Cardinality(OnLot(d)) >= 3}

\* The query returned a dealership that has a sold car besides the cars on
\* its lot, and left out one established after 1980 with 2 cars on its lot
C8_Witness ==
    /\ last.op = "old_dealers"
    /\ \E d \in last.result : \E c \in CarsOfDealership(d) : cars[c].sold_date # None
    /\ \E d \in DOMAIN dealerships \ last.result :
          /\ dealerships[d].year_established = 1987
          /\ Cardinality(OnLot(d)) = 2

\* ------------------------------------------------------- SpecRedFords
\* Two dealerships, cars of four kinds at two prices, sell_car, and
\* find_red_fords_under_30000.
MaxCars == 2

\* make, color, mileage
CarKinds == {<<1, 1, 29999>>, <<1, 1, 30000>>, <<2, 1, 29999>>, <<1, 2, 29999>>}

KindCar(k, d, lp) ==
    [make |-> k[1], model |-> k[1], year |-> 2011, color |-> k[2], dealership |-> d,
     mileage |-> k[3], list_price_cents |-> lp,
     sold_price_cents |-> None, sold_date |-> None]

InitRedFords ==
    /\ users = {1}
    /\ dealerships = <<[owner |-> 1, year_established |-> 1987],
                       [owner |-> 1, year_established |-> 1987]>>
    /\ makes = <<"Ford", "Subaru">>
    /\ models = <<[company |-> 1, model_name |-> "Fusion"],
                  [company |-> 2, model_name |-> "Forrester"]>>
    /\ colors = <<"Red", "Grey">>
    /\ cars = <<>>
    /\ mem = <<>>
    /\ today = 1
    /\ pc = Idle
    /\ last = NoOp

NextRedFords ==
    \/ \E k \in CarKinds, d \in DOMAIN dealerships, lp \in {700000, 1057900} :
          create_car(1..MaxCars, KindCar(k, d, lp))
    \/ \E c \in DOMAIN mem : sell_car(c, 4000000)
    \/ sell_car_save
    \/ \E d \in DOMAIN dealerships : find_red_fords_under_30000(d)

SpecRedFords == InitRedFords /\ [][NextRedFords]_vars

\* C9: find_red_fords_under_30000 returns exactly the dealership's own cars
\* that are Ford, Red, under 30000 miles and without a sold_date, each once,
\* with list_price_cents non-increasing; a car sell_car was applied to is in
\* no dealership's result; and the method has a result, possibly empty, for
\* every dealership.
C9_RedFords ==
    /\ last.op = "red_fords" =>
          LET r == last.result
          IN  /\ {r[i] : i \in DOMAIN r} =
                    {c \in DOMAIN cars :
                        /\ cars[c].dealership = last.dealership
                        /\ makes[cars[c].make] = "Ford"
                        /\ colors[cars[c].color] = "Red"
                        /\ cars[c].mileage < 30000
                        /\ cars[c].sold_date = None}
              /\ \A i, j \in DOMAIN r : i < j =>
                    /\ r[i] # r[j]
                    /\ cars[r[i]].list_price_cents >= cars[r[j]].list_price_cents
    /\ (last.op = "sell_car" /\ last.err = "none") =>
          \A d \in DOMAIN dealerships : last.car \notin red_fords(d)
    /\ pc = Idle => \A d \in DOMAIN dealerships : ENABLED find_red_fords_under_30000(d)

\* The method returned a dealership's two red Fords, the dearer one first
C9_Witness ==
    /\ last.op = "red_fords"
    /\ Len(last.result) = 2
    /\ cars[last.result[1]].list_price_cents > cars[last.result[2]].list_price_cents

====
